---- MODULE Spec2Model ----
(***************************************************************************)
(* Lead-capture service: the tenant directory COMPANY_CACHE and its        *)
(* refresh (load_companies), the request handler submit, and the daily     *)
(* batch (daily_report in server.py, run_daily_report in cron.py), as      *)
(* threads of one process sharing COMPANY_CACHE and the database.          *)
(*                                                                         *)
(* Strings that the code takes apart (the Host header) are sequences of    *)
(* one-character strings; all other strings are opaque values.             *)
(***************************************************************************)
EXTENDS Integers, Sequences, FiniteSets, TLC

\* ------------------------------------------------------------------ bounds
\* Calendar days the model runs through (CURRENT_DATE / date.today()).
MaxDay == 2
\* Rows the company_leads serial id may hand out.
MaxLeads == 2
\* Minutes the wall clock of the limiter runs through.
MaxClock == 10
\* Rows one fetch of daily_report returns.
MaxRows == 3
\* Days a plan may still have to run when its report is mailed.
MaxLeft == 4

\* --------------------------------------------------------------- constants
None == "None"

BareDomain == <<"m", "y", "s", "q", "f", "t", ".", "i", "n">>
WwwDomain == <<"w", "w", "w", ".">> \o BareDomain
RootKey == <<"m", "y", "s", "q", "f", "t">>

\* The subdomain column of the two rows of the companies table.
SubA == <<"a">>
SubB == <<"b">>
Subdomains == {SubA, SubB}

\* Host headers a client sends: a.mysqft.in, b.mysqft.in:80, mysqft.in.
HostA == SubA \o <<".">> \o BareDomain
HostB == SubB \o <<".">> \o BareDomain \o <<":", "8", "0">>
Hosts == {HostA, HostB, BareDomain}

\* request.form of a client.
\* FormY: x is empty, y is filled. FormZ: x and a field z no tenant accepts.
FormY == [k \in {"x", "y"} |-> IF k = "x" THEN "" ELSE "v"]
FormZ == [k \in {"x", "z"} |-> "w"]
Forms == {FormY, FormZ}

\* The companies table: the columns load_companies selects, per subdomain.
\* Tenant a's plan runs out after day 1; tenant b's outlasts the model.
CompanyRow(sub) ==
    IF sub = SubA
    THEN [id |-> 1, company_name |-> "A", email |-> "a@mail",
          discord_webhook |-> "https://discord/a",
          webhook_url |-> "https://hook/a", webhook_secret |-> "ka",
          plan |-> "all", plan_expiry |-> 1, lead_fields |-> <<"x", "y">>]
    ELSE [id |-> 2, company_name |-> "B", email |-> "b@mail",
          discord_webhook |-> None,
          webhook_url |-> "https://hook/b", webhook_secret |-> "kb",
          plan |-> "webhook", plan_expiry |-> MaxDay + 1, lead_fields |-> <<"x">>]

\* dict.get's miss: no tuple.
NoCompany == [id |-> 0]

VARIABLES
    today,          \* the calendar date (database CURRENT_DATE and date.today())
    is_active,      \* companies.is_active, per subdomain
    company_leads,  \* the company_leads table: a set of rows
    nextLeadId,     \* the table's serial id
    COMPANY_CACHE,  \* server.COMPANY_CACHE: subdomain -> row[1:]
    lc,             \* the thread running load_companies
    req,            \* the thread running submit
    dr,             \* the thread running daily_report
    rl,             \* the rate limiter of /submit and the wall clock
    pf              \* the last call of a function taken on its own, with its result

vars == <<today, is_active, company_leads, nextLeadId, COMPANY_CACHE, lc, req, dr, rl, pf>>

\* ------------------------------------------------------------ pure helpers
Range(s) == {s[i] : i \in DOMAIN s}

\* str.split(sep) for a one-character separator.
RECURSIVE Split(_, _)
Split(s, sep) ==
    IF \E i \in 1..Len(s) : s[i] = sep
    THEN LET i == CHOOSE j \in 1..Len(s) :
                      s[j] = sep /\ \A k \in 1..(j - 1) : s[k] # sep
         IN <<SubSeq(s, 1, i - 1)>> \o Split(SubSeq(s, i + 1, Len(s)), sep)
    ELSE <<s>>

resolve_subdomain(request_host) ==
    LET host == Split(request_host, ":")[1]
        parts == Split(host, ".")
    IN IF host \in {BareDomain, WwwDomain} THEN RootKey
       ELSE IF Len(parts) > 2 THEN parts[1]
       ELSE RootKey

EmptyCache == [k \in {} |-> NoCompany]

\* COMPANY_CACHE[subdomain] = row[1:]
CachePut(cache, sub, row) ==
    [k \in DOMAIN cache \cup {sub} |-> IF k = sub THEN row ELSE cache[k]]

\* COMPANY_CACHE.get(subdomain)
CacheGet(cache, sub) == IF sub \in DOMAIN cache THEN cache[sub] ELSE NoCompany

\* The directory a refresh that read `subs` from the database builds.
SnapshotOf(subs) == [k \in subs |-> CompanyRow(k)]

\* SELECT ... FROM companies WHERE is_active=true
ActiveCompanies == {s \in Subdomains : is_active[s]}

\* Mutant: the comprehension without its field list (every form key is kept).
LeadData_AllFormKeys(fields, form) ==
    [f \in {g \in DOMAIN form : form[g] # ""} |-> form[f]]

\* Mutant: the comprehension without its `if` (empty values are kept).
LeadData_KeepsEmpty(fields, form) ==
    [f \in Range(fields) \cap DOMAIN form |-> form[f]]

\* The dict comprehension of submit: accepted fields with a truthy form value.
LeadData(fields, form) ==
    [f \in {g \in Range(fields) : g \in DOMAIN form /\ form[g] # ""} |-> form[f]]


\* send_email: whatever open/attach/mail.send raise is caught and logged.
send_email(to_email, csv_file) == {"sent", "failed"}

\* send_discord: nothing without a webhook; a failed post is caught and logged.
send_discord(webhook) ==
    IF webhook \notin {None, ""} THEN {"delivered", "failed"} ELSE {"skipped"}

\* send_webhook: nothing without a url; secret.encode() of a missing secret
\* raises inside the try, before the post; a failed post is caught and logged.
send_webhook(url, secret) ==
    IF url \in {None, ""} THEN {"skipped"}
    ELSE IF secret = None THEN {"error"}
    ELSE {"delivered", "failed"}

NoResp == <<"", 0>>

\* --------------------------------------------------------------------- Init
IdleLc == [pc |-> "idle", result |-> {}, rows |-> {}, pre |-> EmptyCache,
           outcome |-> "none"]

IdleReq == [pc |-> "idle", host |-> <<>>, form |-> <<>>, company |-> NoCompany,
            today |-> 0, lead_data |-> <<>>, save |-> "none", resp |-> NoResp,
            discord |-> "none", webhook |-> "none", id0 |-> 1]

IdleDr == [pc |-> "idle", day |-> 0, companies |-> {}, eligible |-> {},
           cur |-> {}, rows |-> {}, fetched |-> {}, emailed |-> {},
           mailfailed |-> {}, deleted |-> {}, removed |-> {}, unserved |-> {},
           all_ok |-> TRUE, result |-> "none"]

\* The limiter's storage is empty and the clock, in minutes, starts at 0.
IdleRl == [clock |-> 0, count |-> 0, expiry |-> 0, prev |-> 0, cur |-> 0]

NoCall == [op |-> "none"]

\* The state when app.run starts serving: the tables as the operator left
\* them, and COMPANY_CACHE as __main__'s load_companies() left it (filled,
\* or still {} when get_db or the query failed).
Init ==
    /\ today = 1
    /\ is_active = [s \in Subdomains |-> TRUE]
    /\ company_leads = {}
    /\ nextLeadId = 1
    /\ COMPANY_CACHE \in {EmptyCache, SnapshotOf(ActiveCompanies)}
    /\ lc = IdleLc
    /\ req = IdleReq
    /\ dr = IdleDr
    /\ rl = IdleRl
    /\ pf = NoCall

\* ---------------------------------------------------------- load_companies
\* get_db, cursor, execute: without a connection the function returns; a
\* raising query goes to the except clause. Nothing is written yet.
LC_Query ==
    /\ lc.pc = "idle"
    /\ \E outcome \in {"ok", "nodb", "raise"} :
          lc' = IF outcome = "ok"
                THEN [pc |-> "clear", result |-> ActiveCompanies, rows |-> {},
                      pre |-> COMPANY_CACHE, outcome |-> "running"]
                ELSE [pc |-> "idle", result |-> {}, rows |-> {},
                      pre |-> COMPANY_CACHE, outcome |-> "failed"]
    /\ UNCHANGED <<today, is_active, company_leads, nextLeadId, COMPANY_CACHE, req, dr, rl, pf>>

\* Mutant: the refresh without COMPANY_CACHE.clear(): the rows are stored
\* over the old directory.
LC_Clear_NoClear ==
    /\ lc.pc = "clear"
    /\ lc' = [lc EXCEPT !.pc = "fetchall"]
    /\ UNCHANGED <<today, is_active, company_leads, nextLeadId, COMPANY_CACHE, req, dr, rl, pf>>

\* COMPANY_CACHE.clear()
LC_Clear ==
    /\ lc.pc = "clear"
    /\ COMPANY_CACHE' = EmptyCache
    /\ lc' = [lc EXCEPT !.pc = "fetchall"]
    /\ UNCHANGED <<today, is_active, company_leads, nextLeadId, req, dr, rl, pf>>

\* cur.fetchall(): the rows, or an exception caught by the except clause.
LC_Fetchall ==
    /\ lc.pc = "fetchall"
    /\ \E ok \in BOOLEAN :
          lc' = IF ok
                THEN [lc EXCEPT !.pc = "store", !.rows = lc.result]
                ELSE [lc EXCEPT !.pc = "idle", !.outcome = "failed"]
    /\ UNCHANGED <<today, is_active, company_leads, nextLeadId, COMPANY_CACHE, req, dr, rl, pf>>

\* One turn of the for loop: COMPANY_CACHE[subdomain] = row[1:]. The query
\* has no ORDER BY: the rows come in any order.
LC_Store ==
    /\ lc.pc = "store"
    /\ \E sub \in lc.rows :
          /\ COMPANY_CACHE' = CachePut(COMPANY_CACHE, sub, CompanyRow(sub))
          /\ lc' = [lc EXCEPT !.rows = lc.rows \ {sub}]
    /\ UNCHANGED <<today, is_active, company_leads, nextLeadId, req, dr, rl, pf>>

\* The loop is over: log, close.
LC_Done ==
    /\ lc.pc = "store"
    /\ lc.rows = {}
    /\ lc' = [lc EXCEPT !.pc = "idle", !.outcome = "ok", !.pre = EmptyCache]
    /\ UNCHANGED <<today, is_active, company_leads, nextLeadId, COMPANY_CACHE, req, dr, rl, pf>>

\* ------------------------------------------------------------------ submit
\* The snapshots a reader may be shown while a refresh runs: the directory
\* before it, and the one its query result makes.
PreSnapshot == IF lc.pc = "idle" THEN COMPANY_CACHE ELSE lc.pre
PostSnapshot == IF lc.pc = "idle" THEN COMPANY_CACHE ELSE SnapshotOf(lc.result)

Respond(r, body, status) == [r EXCEPT !.pc = "done", !.resp = <<body, status>>]

\* resolve_subdomain, COMPANY_CACHE.get, the expiry check and the field
\* filter: one read of the shared directory, the rest on locals. A request is
\* taken while the table can still hand out an id.
submit(host, form) ==
    /\ req.pc \in {"idle", "done"}
    /\ nextLeadId <= MaxLeads
    /\ LET subdomain == resolve_subdomain(host)
           company == CacheGet(COMPANY_CACHE, subdomain)
           r == [IdleReq EXCEPT !.host = host, !.form = form,
                                !.company = company, !.id0 = nextLeadId]
       IN req' =
            IF company = NoCompany
            THEN Respond(r, "Company not found", 403)
            ELSE IF company.plan_expiry < today
            THEN Respond([r EXCEPT !.today = today], "Plan expired", 403)
            ELSE LET lead_data == LeadData(company.lead_fields, form)
                     r2 == [r EXCEPT !.today = today, !.lead_data = lead_data]
                 IN IF DOMAIN lead_data = {}
                    THEN Respond(r2, "No valid data", 400)
                    ELSE [r2 EXCEPT !.pc = "save_lead"]

\* A request of a client the limiter has no count against (each from an
\* address of its own): the handler runs.
S_Lookup(host, form) ==
    /\ submit(host, form)
    /\ UNCHANGED <<today, is_active, company_leads, nextLeadId, COMPANY_CACHE, lc, dr, rl, pf>>

\* ----------------------------------------------------------------- limiter
\* Limiter(app=app, key_func=get_remote_address, default_limits=[]) and
\* @limiter.limit("5 per 10 minutes") on submit. No strategy and no storage
\* are passed, so the library's defaults apply: the fixed-window strategy
\* over in-memory storage. A window of one address opens with its first
\* counted request and is dropped RateLimitMinutes later; the counter of
\* the address starts anew with the request after that. rl holds
\* the counter of one address, and prev and cur, the requests admitted at
\* the clock reading before this one and at this one.
RateLimitCount == 5
RateLimitMinutes == 10

\* The counter as the storage reports it at the clock reading now.
WindowCount == IF rl.clock >= rl.expiry THEN 0 ELSE rl.count

\* The limiter counts the request in.
Hit ==
    [rl EXCEPT !.count = WindowCount + 1,
               !.expiry = IF WindowCount = 0 THEN rl.clock + RateLimitMinutes
                          ELSE rl.expiry,
               !.cur = rl.cur + 1]

\* A request of the counted address inside the limit: the handler runs.
L_Submit(host, form) ==
    /\ WindowCount < RateLimitCount
    /\ submit(host, form)
    /\ rl' = Hit
    /\ UNCHANGED <<today, is_active, company_leads, nextLeadId, COMPANY_CACHE, lc, dr, pf>>

\* A request of the counted address over the limit: ratelimit_handler
\* answers in place of submit.
L_Limited(host, form) ==
    /\ req.pc \in {"idle", "done"}
    /\ WindowCount >= RateLimitCount
    /\ req' = Respond([IdleReq EXCEPT !.host = host, !.form = form,
                                      !.id0 = nextLeadId],
                      "Too many requests", 429)
    /\ UNCHANGED <<today, is_active, company_leads, nextLeadId, COMPANY_CACHE, lc, dr, rl, pf>>

\* Five minutes pass.
L_Tick ==
    /\ rl.clock + 5 <= MaxClock
    /\ rl' = [rl EXCEPT !.clock = rl.clock + 5, !.prev = rl.cur, !.cur = 0]
    /\ UNCHANGED <<today, is_active, company_leads, nextLeadId, COMPANY_CACHE, lc, req, dr, pf>>

\* The row save_lead inserts; created_at is the database's clock. host is
\* not a column: it remembers the request the row came from.
NewLead(r) ==
    [id |-> nextLeadId, company_id |-> r.company.id, lead_data |-> r.lead_data,
     created_at |-> today, host |-> r.host]

\* Mutant: submit without `if not save_lead(...): return ... 500`: the
\* notifications follow a failed save.
S_SaveLead_FailureStillNotifies ==
    /\ req.pc = "save_lead"
    /\ \E outcome \in {"ok", "nodb", "raise"} :
          IF outcome = "ok"
          THEN /\ company_leads' = company_leads \cup {NewLead(req)}
               /\ nextLeadId' = nextLeadId + 1
               /\ req' = [req EXCEPT !.pc = "discord", !.save = "ok"]
          ELSE /\ req' = [req EXCEPT !.pc = "discord", !.save = "failed"]
               /\ UNCHANGED <<company_leads, nextLeadId>>
    /\ UNCHANGED <<today, is_active, COMPANY_CACHE, lc, dr, rl, pf>>

\* save_lead: no connection, or a raising insert/commit (rolled back), gives
\* False and the 500; otherwise the row is committed.
S_SaveLead ==
    /\ req.pc = "save_lead"
    /\ \E outcome \in {"ok", "nodb", "raise"} :
          IF outcome = "ok"
          THEN /\ company_leads' = company_leads \cup {NewLead(req)}
               /\ nextLeadId' = nextLeadId + 1
               /\ req' = [req EXCEPT !.pc = "discord", !.save = "ok"]
          ELSE /\ req' = Respond([req EXCEPT !.save = "failed"], "Failed to save lead", 500)
               /\ UNCHANGED <<company_leads, nextLeadId>>
    /\ UNCHANGED <<today, is_active, COMPANY_CACHE, lc, dr, rl, pf>>

\* Mutant: send_discord without its try: a failed post reaches submit's
\* except clause.
S_Discord_FailureFailsRequest ==
    /\ req.pc = "discord"
    /\ \E o \in (IF req.company.plan \in {"discord", "all"}
                 THEN send_discord(req.company.discord_webhook)
                 ELSE {"none"}) :
          req' = IF o = "failed"
                 THEN Respond([req EXCEPT !.discord = o], "Internal server error", 500)
                 ELSE [req EXCEPT !.pc = "webhook", !.discord = o]
    /\ UNCHANGED <<today, is_active, company_leads, nextLeadId, COMPANY_CACHE, lc, dr, rl, pf>>

\* if plan in ("discord", "all"): send_discord(...)
S_Discord ==
    /\ req.pc = "discord"
    /\ \E o \in (IF req.company.plan \in {"discord", "all"}
                 THEN send_discord(req.company.discord_webhook)
                 ELSE {"none"}) :
          req' = [req EXCEPT !.pc = "webhook", !.discord = o]
    /\ UNCHANGED <<today, is_active, company_leads, nextLeadId, COMPANY_CACHE, lc, dr, rl, pf>>

\* Mutant: send_webhook without its try: a failed post reaches submit's
\* except clause.
S_Webhook_FailureFailsRequest ==
    /\ req.pc = "webhook"
    /\ \E o \in (IF req.company.plan \in {"webhook", "all"}
                 THEN send_webhook(req.company.webhook_url, req.company.webhook_secret)
                 ELSE {"none"}) :
          req' = IF o \in {"failed", "error"}
                 THEN Respond([req EXCEPT !.webhook = o], "Internal server error", 500)
                 ELSE Respond([req EXCEPT !.webhook = o], "Lead stored", 200)
    /\ UNCHANGED <<today, is_active, company_leads, nextLeadId, COMPANY_CACHE, lc, dr, rl, pf>>

\* if plan in ("webhook", "all"): send_webhook(...); return "Lead stored".
S_Webhook ==
    /\ req.pc = "webhook"
    /\ \E o \in (IF req.company.plan \in {"webhook", "all"}
                 THEN send_webhook(req.company.webhook_url, req.company.webhook_secret)
                 ELSE {"none"}) :
          req' = Respond([req EXCEPT !.webhook = o], "Lead stored", 200)
    /\ UNCHANGED <<today, is_active, company_leads, nextLeadId, COMPANY_CACHE, lc, dr, rl, pf>>


\* ------------------------------------------------------------ daily_report
\* SELECT ... FROM companies WHERE is_active=true AND plan_expiry >= CURRENT_DATE
EligibleCompanies == {s \in ActiveCompanies : CompanyRow(s).plan_expiry >= today}

\* The rows of WHERE company_id=%s AND created_at::date = CURRENT_DATE, which
\* the SELECT of the loop reads and its DELETE removes.
LeadsToday(sub) ==
    {l \in company_leads : l.company_id = CompanyRow(sub).id /\ l.created_at = today}

Ids(rows) == {l.id : l \in rows}

\* except Exception: log, rollback; finally: close. The loop is left, and
\* with it the companies not yet visited; unserved remembers those of them
\* that have leads of today at that moment.
DR_Abort(d) ==
    [d EXCEPT !.pc = "idle", !.result = "aborted",
              !.unserved = {s \in d.companies : LeadsToday(s) # {}}]

\* Whether every run so far ran on its day and came to its end: the run of
\* the day before did, and so did those before it.
RunsSoFarOk ==
    today = 1 \/ (dr.day = today - 1 /\ dr.result = "done" /\ dr.all_ok)

\* The scheduler fires the job once a day. get_db, cursor, the companies
\* query: without a connection the job returns, a raising query aborts it.
DR_Start ==
    /\ dr.pc = "idle"
    /\ dr.day < today
    /\ \E outcome \in {"ok", "nodb", "raise"} :
          dr' = IF outcome = "ok"
                THEN [IdleDr EXCEPT !.pc = "loop", !.day = today,
                                    !.companies = EligibleCompanies,
                                    !.eligible = EligibleCompanies,
                                    !.all_ok = RunsSoFarOk,
                                    !.result = "running"]
                ELSE [IdleDr EXCEPT !.day = today, !.all_ok = RunsSoFarOk,
                                    !.result = IF outcome = "nodb" THEN "nodb" ELSE "aborted"]
    /\ UNCHANGED <<today, is_active, company_leads, nextLeadId, COMPANY_CACHE, lc, req, rl, pf>>

\* Mutant: the loop without `if not rows: continue`.
DR_Fetch_NoSkip ==
    /\ dr.pc = "loop"
    /\ \E sub \in dr.companies, ok \in BOOLEAN :
          LET d == [dr EXCEPT !.companies = dr.companies \ {sub}, !.cur = {sub},
                              !.removed = {}]
              rows == LeadsToday(sub)
          IN dr' = IF ~ok THEN DR_Abort(d)
                   ELSE [d EXCEPT !.pc = "export", !.rows = rows,
                                  !.fetched = dr.fetched \cup {sub}]
    /\ UNCHANGED <<today, is_active, company_leads, nextLeadId, COMPANY_CACHE, lc, req, rl, pf>>

\* The head of the for loop and the SELECT of today's leads of the company;
\* `if not rows: continue`. The companies query has no ORDER BY.
DR_Fetch ==
    /\ dr.pc = "loop"
    /\ \E sub \in dr.companies, ok \in BOOLEAN :
          LET d == [dr EXCEPT !.companies = dr.companies \ {sub}, !.cur = {sub},
                              !.removed = {}]
              rows == LeadsToday(sub)
          IN dr' = IF ~ok THEN DR_Abort(d)
                   ELSE IF rows = {} THEN [d EXCEPT !.rows = {}]
                   ELSE [d EXCEPT !.pc = "export", !.rows = rows,
                                  !.fetched = dr.fetched \cup {sub}]
    /\ UNCHANGED <<today, is_active, company_leads, nextLeadId, COMPANY_CACHE, lc, req, rl, pf>>

\* The headers and the csv file of the company; open/write may raise.
DR_Export ==
    /\ dr.pc = "export"
    /\ \E ok \in BOOLEAN :
          dr' = IF ok THEN [dr EXCEPT !.pc = "email"] ELSE DR_Abort(dr)
    /\ UNCHANGED <<today, is_active, company_leads, nextLeadId, COMPANY_CACHE, lc, req, rl, pf>>

\* Mutant: send_email without its try: a failed mail reaches the except
\* clause of daily_report.
DR_Email_MailFailureAborts ==
    /\ dr.pc = "email"
    /\ \E sub \in dr.cur :
          IF CompanyRow(sub).plan \in {"email", "all"}
          THEN \E o \in send_email(CompanyRow(sub).email, sub) :
                  dr' = IF o = "failed"
                        THEN DR_Abort([dr EXCEPT !.emailed = dr.emailed \cup {sub},
                                                 !.mailfailed = dr.mailfailed \cup {sub}])
                        ELSE [dr EXCEPT !.pc = "delete",
                                        !.emailed = dr.emailed \cup {sub}]
          ELSE dr' = [dr EXCEPT !.pc = "delete"]
    /\ UNCHANGED <<today, is_active, company_leads, nextLeadId, COMPANY_CACHE, lc, req, rl, pf>>

\* if plan in ("email", "all"): send_email(email, csv_file)
DR_Email ==
    /\ dr.pc = "email"
    /\ \E sub \in dr.cur :
          IF CompanyRow(sub).plan \in {"email", "all"}
          THEN \E o \in send_email(CompanyRow(sub).email, sub) :
                  dr' = [dr EXCEPT !.pc = "delete",
                                   !.emailed = dr.emailed \cup {sub},
                                   !.mailfailed = dr.mailfailed \cup
                                        (IF o = "failed" THEN {sub} ELSE {})]
          ELSE dr' = [dr EXCEPT !.pc = "delete"]
    /\ UNCHANGED <<today, is_active, company_leads, nextLeadId, COMPANY_CACHE, lc, req, rl, pf>>

\* DELETE ... WHERE company_id=%s AND created_at::date = CURRENT_DATE, commit,
\* os.remove. A raising delete or commit is rolled back; a raising os.remove
\* comes after the commit. Either leaves the loop.
DR_Delete ==
    /\ dr.pc = "delete"
    /\ \E sub \in dr.cur, outcome \in {"ok", "raise", "remove_raises"} :
          IF outcome = "raise"
          THEN /\ dr' = DR_Abort(dr)
               /\ UNCHANGED company_leads
          ELSE LET d == [dr EXCEPT !.deleted = dr.deleted \cup {sub},
                                   !.removed = Ids(LeadsToday(sub))]
               IN /\ company_leads' = company_leads \ LeadsToday(sub)
                  /\ dr' = IF outcome = "ok" THEN [d EXCEPT !.pc = "loop"]
                           ELSE DR_Abort(d)
    /\ UNCHANGED <<today, is_active, nextLeadId, COMPANY_CACHE, lc, req, rl, pf>>

\* The companies are exhausted: finally, close.
DR_Done ==
    /\ dr.pc = "loop"
    /\ dr.companies = {}
    /\ dr' = [dr EXCEPT !.pc = "idle", !.result = "done"]
    /\ UNCHANGED <<today, is_active, company_leads, nextLeadId, COMPANY_CACHE, lc, req, rl, pf>>

\* ---------------------------------------------------------- cron.py
\* run_daily_report opens with load_companies(force=True); server's
\* load_companies takes no parameter, so the call raises TypeError before
\* get_db, outside any try: the process ends having touched nothing.
run_daily_report ==
    /\ UNCHANGED <<today, is_active, company_leads, nextLeadId, COMPANY_CACHE, lc, req, dr, rl, pf>>

\* ------------------------------------------------------------- environment
\* Midnight. The batch job (06:00) and a request are short: neither is
\* running across midnight.
NextDay ==
    /\ today < MaxDay
    /\ dr.pc = "idle"
    /\ req.pc \in {"idle", "done"}
    /\ today' = today + 1
    /\ UNCHANGED <<is_active, company_leads, nextLeadId, COMPANY_CACHE, lc, req, dr, rl, pf>>

\* The operator activates or deactivates a company.
SetActive(sub) ==
    /\ is_active' = [is_active EXCEPT ![sub] = ~is_active[sub]]
    /\ UNCHANGED <<today, company_leads, nextLeadId, COMPANY_CACHE, lc, req, dr, rl, pf>>

\* ------------------------------------------------------ functions called
\* send_webhook, send_email, the export of daily_report and
\* resolve_subdomain taken on their own: pf is the last call, with its
\* arguments and what it produced.

\* str(n) of an int n >= 0: its decimal digits.
RECURSIVE str(_)
str(n) ==
    LET digit(d) == <<"0", "1", "2", "3", "4", "5", "6", "7", "8", "9">>[d + 1]
    IN IF n < 10 THEN <<digit(n)>> ELSE str(n \div 10) \o <<digit(n % 10)>>

\* int(time.time()): the clock is read in tenths of a second.
int(t) == t \div 10

\* The items of a dict, in its order, as json.dumps writes them.
RECURSIVE json_items(_)
json_items(d) ==
    IF d = <<>> THEN <<>>
    ELSE <<d[1][1], ": ", d[1][2]>> \o
         (IF Len(d) > 1 THEN <<", ">> ELSE <<>>) \o json_items(Tail(d))

\* json.dumps(payload) of submit's envelope, as a sequence of tokens.
json_dumps(payload) ==
    <<"{", "event", ": ", payload.event, ", ",
           "company", ": ", payload.company, ", ",
           "lead", ": ", "{">> \o json_items(payload.lead) \o <<"}", "}">>

\* hmac.new(key, msg=msg, digestmod=hashlib.sha256).hexdigest(): a value
\* that names its key and its message.
hmac_hexdigest(key, msg) == <<"hmac-sha256", key, msg>>

\* Mutant: the signature is taken over the body alone.
webhook_post_SignsBodyOnly(url, secret, payload, now) ==
    LET body == json_dumps(payload)
        timestamp == str(int(now))
        signature == hmac_hexdigest(secret, body)
    IN [url |-> url, data |-> body,
        headers |-> [h \in {"Content-Type", "X-Signature", "X-Timestamp"} |->
                       CASE h = "Content-Type" -> "application/json"
                         [] h = "X-Signature" -> signature
                         [] h = "X-Timestamp" -> timestamp]]

\* The requests.post of send_webhook, at the clock reading now.
webhook_post(url, secret, payload, now) ==
    LET body == json_dumps(payload)
        timestamp == str(int(now))
        signature == hmac_hexdigest(secret, timestamp \o body)
    IN [url |-> url, data |-> body,
        headers |-> [h \in {"Content-Type", "X-Signature", "X-Timestamp"} |->
                       CASE h = "Content-Type" -> "application/json"
                         [] h = "X-Signature" -> signature
                         [] h = "X-Timestamp" -> timestamp]]

\* webhook_url and webhook_secret columns: NULL, empty, set.
Urls == {None, "", "https://hook/a"}
Secrets == {None, "", "ka"}
\* The envelopes of submit for a lead of one and of two fields.
Payloads ==
    {[event |-> "lead.created", company |-> "A", lead |-> l] :
        l \in {<< <<"x", "w">> >>, << <<"x", "w">>, <<"y", "v">> >>}}
\* time.time(), in tenths of a second.
Times == {7, 99, 1204}

\* send_webhook(url, secret, payload): posts holds the request it issued,
\* if it issued one (a post that failed or timed out was issued).
F_send_webhook ==
    /\ \E url \in Urls, secret \in Secrets, payload \in Payloads, now \in Times :
          \E o \in send_webhook(url, secret) :
             pf' = [op |-> "send_webhook", url |-> url, secret |-> secret,
                    payload |-> payload, now |-> now, outcome |-> o,
                    posts |-> IF o \in {"delivered", "failed"}
                              THEN <<webhook_post(url, secret, payload, now)>>
                              ELSE <<>>]
    /\ UNCHANGED <<today, is_active, company_leads, nextLeadId, COMPANY_CACHE, lc, req, dr, rl>>

\* list(s) of a set s: its elements in the order the set iterates in, which
\* for strings differs from one process to the next.
Orders(s) == {o \in [1..Cardinality(s) -> s] : Range(o) = s}

\* headers.update(data.keys()) over the rows.
HeadersOf(rows) == UNION {DOMAIN rows[i][1] : i \in DOMAIN rows}

\* The csv daily_report writes, as its rows of cells: the header row, then
\* one row per fetched row, "" where the lead lacks the field.
export(rows, order) ==
    <<order \o <<"created_at">>>> \o
    [i \in 1..Len(rows) |->
        [j \in 1..Len(order) |->
            IF order[j] \in DOMAIN rows[i][1] THEN rows[i][1][order[j]] ELSE ""]
        \o <<rows[i][2]>>]

\* lead_data of the rows a fetch returns.
Datas == {[k \in {"x"} |-> "1"], [k \in {"y"} |-> "2"], [k \in {"x", "y"} |-> "3"]}
\* What cur.fetchall() returns for a company with leads: (lead_data, created_at).
Fetches == UNION {[1..n -> {<<d, 1>> : d \in Datas}] : n \in 1..MaxRows}

\* The export of one company of daily_report.
F_export ==
    /\ \E rows \in Fetches :
          \E order \in Orders(HeadersOf(rows)) :
             pf' = [op |-> "export", rows |-> rows, csv |-> export(rows, order)]
    /\ UNCHANGED <<today, is_active, company_leads, nextLeadId, COMPANY_CACHE, lc, req, dr, rl>>

\* The Message send_email builds.
email_message(to_email, csv_file) ==
    [subject |-> "Daily Lead Report", recipients |-> <<to_email>>,
     body |-> "Attached is today's lead report.",
     attachments |-> <<<<"leads.csv", "text/csv", csv_file>>>>]

\* send_email(email, csv_file) of daily_report for a company whose plan
\* expires left days after day (the query keeps plan_expiry >= CURRENT_DATE).
F_send_email ==
    /\ \E sub \in Subdomains, day \in 1..MaxDay, left \in 0..MaxLeft :
          \E o \in send_email(CompanyRow(sub).email, "1.csv") :
             pf' = [op |-> "send_email", day |-> day, plan_expiry |-> day + left,
                    outcome |-> o,
                    sent |-> IF o = "sent"
                             THEN <<email_message(CompanyRow(sub).email, "1.csv")>>
                             ELSE <<>>]
    /\ UNCHANGED <<today, is_active, company_leads, nextLeadId, COMPANY_CACHE, lc, req, dr, rl>>

\* Host headers: www.mysqft.in:80, c.a.mysqft.in, a.x.io, x.io, lh.
HostWww == WwwDomain \o <<":", "8", "0">>
HostDeep == <<"c", ".">> \o HostA
HostForeign == <<"a", ".", "x", ".", "i", "o">>
HostShort == <<"x", ".", "i", "o">>
HostLocal == <<"l", "h">>
RequestHosts ==
    Hosts \cup {WwwDomain, HostWww, HostDeep, HostForeign, HostShort, HostLocal}

\* resolve_subdomain() for a request with the Host header host.
F_resolve_subdomain ==
    /\ \E host \in RequestHosts :
          pf' = [op |-> "resolve_subdomain", host |-> host,
                 subdomain |-> resolve_subdomain(host)]
    /\ UNCHANGED <<today, is_active, company_leads, nextLeadId, COMPANY_CACHE, lc, req, dr, rl>>

\* The directory side: the refresh, the requests that read it, the operator.
NextDirectory ==
    \/ LC_Query
    \/ LC_Clear
    \/ LC_Fetchall
    \/ LC_Store
    \/ LC_Done
    \/ \E host \in Hosts, form \in Forms : S_Lookup(host, form)
    \/ S_SaveLead
    \/ S_Discord
    \/ S_Webhook
    \/ NextDay
    \/ \E sub \in Subdomains : SetActive(sub)

\* The batch side: the daily jobs and the requests that insert leads.
NextBatch ==
    \/ DR_Start
    \/ DR_Fetch
    \/ DR_Export
    \/ DR_Email
    \/ DR_Delete
    \/ DR_Done
    \/ run_daily_report
    \/ \E host \in Hosts, form \in Forms : S_Lookup(host, form)
    \/ S_SaveLead
    \/ S_Discord
    \/ S_Webhook
    \/ NextDay

Next == NextDirectory \/ NextBatch

Spec == Init /\ [][Next]_vars

\* load_companies and daily_report share no state but the companies table,
\* which neither writes: the directory side and the batch side are checked
\* each with the requests running beside it.
SpecDirectory == Init /\ [][NextDirectory]_vars
SpecBatch == Init /\ [][NextBatch]_vars

\* The requests of one address behind the limiter.
NextLimiter ==
    \/ \E host \in Hosts, form \in Forms : L_Submit(host, form)
    \/ \E host \in Hosts, form \in Forms : L_Limited(host, form)
    \/ L_Tick
    \/ S_SaveLead
    \/ S_Discord
    \/ S_Webhook

SpecLimiter == Init /\ [][NextLimiter]_vars

\* The functions taken on their own.
NextFunctions ==
    \/ F_send_webhook
    \/ F_export
    \/ F_send_email
    \/ F_resolve_subdomain

SpecFunctions == Init /\ [][NextFunctions]_vars


\* ================================================================== claims
StoredOk == <<"Lead stored", 200>>
NotFound == <<"Company not found", 403>>

\* Rows the company_leads table took in since the request began.
Inserted == nextLeadId - req.id0

EmailPlan(sub) == CompanyRow(sub).plan \in {"email", "all"}

\* C1: while load_companies runs beside submit, every lookup of COMPANY_CACHE
\* sees the complete directory of before the refresh or the complete one of
\* after it: what submit's get returns is what one of the two holds for the
\* subdomain, and a tenant in both is never answered "Company not found".
C1_LookupSeesCompleteSnapshot ==
    [][\A host \in Hosts, form \in Forms :
          S_Lookup(host, form) =>
             LET sub == resolve_subdomain(host)
             IN /\ req'.company \in {CacheGet(PreSnapshot, sub), CacheGet(PostSnapshot, sub)}
                /\ sub \in DOMAIN PreSnapshot \cap DOMAIN PostSnapshot
                      => req'.resp # NotFound]_vars

\* C2: a refresh that failed (no connection, a raising query, a raising
\* fetchall) leaves the directory as it was before the refresh.
C2_FailedRefreshKeepsSnapshot ==
    (lc.pc = "idle" /\ lc.outcome = "failed") => COMPANY_CACHE = lc.pre

\* C3: a failure while one tenant is processed does not abort the run: when
\* the run is over, no other eligible tenant with leads of today was left
\* unvisited, and every other tenant whose leads were fetched was notified
\* (if its plan includes email) and purged.
C3_FailureIsolatedPerTenant ==
    (dr.pc = "idle" /\ dr.result \in {"done", "aborted"}) =>
        /\ dr.unserved = {}
        /\ \A sub \in dr.fetched \ (IF dr.result = "aborted" THEN dr.cur ELSE {}) :
              /\ sub \in dr.deleted
              /\ EmailPlan(sub) => sub \in dr.emailed

\* C4: the rows a tenant's delete step removes are exactly the rows its fetch
\* step returned, also when submit stores leads of the tenant in between.
C4_DeleteExactlyFetched ==
    dr.cur \subseteq dr.deleted => dr.removed = Ids(dr.rows)

\* C5: under a daily schedule without failures every lead is gone after the
\* next batch cycle: once the run of a day has come to its end, as all runs
\* before it, no lead of an earlier day is still stored for a tenant the run
\* went through.
C5_NoLeadOutlivesNextRun ==
    (dr.pc = "idle" /\ dr.result = "done" /\ dr.all_ok /\ dr.day = today
        /\ dr.mailfailed = {}) =>
        \A l \in company_leads :
            (\E sub \in dr.eligible : l.company_id = CompanyRow(sub).id)
                => l.created_at = today


\* C6, the order: a tenant's delete is committed, or about to be, only after
\* its leads were fetched and, when its plan is email or all, its mail was
\* attempted.
C6_DeleteAfterFetchAndMail ==
    \A sub \in dr.deleted \cup (IF dr.pc = "delete" THEN dr.cur ELSE {}) :
        /\ sub \in dr.fetched
        /\ EmailPlan(sub) => sub \in dr.emailed

\* C6: fetch, then notify, then delete-commit, per tenant; and whatever the
\* mail's outcome, the step after the mail step is the delete.
C6_FetchNotifyDelete ==
    /\ []C6_DeleteAfterFetchAndMail
    /\ [][(dr.pc = "email" /\ dr' # dr) => dr'.pc = "delete"]_vars

\* C6's case: a tenant whose mail failed and whose delete is committed.
C6_Witness == \E sub \in dr.deleted : sub \in dr.mailfailed /\ EmailPlan(sub)

\* The request is answered, its tenant was found in the directory and is not
\* expired, and `fields` names the accepted fields the form fills.
Served == req.pc = "done" /\ req.company # NoCompany
              /\ ~(req.company.plan_expiry < req.today)
Filled == {f \in Range(req.company.lead_fields) :
              f \in DOMAIN req.form /\ req.form[f] # ""}

\* C7 as stated: such a submit with a filled accepted field always stores
\* exactly one row and answers 200.
C7_AlwaysStored ==
    (Served /\ Filled # {}) => (req.resp = StoredOk /\ Inserted = 1)

\* C7 as amended: it stores exactly one row and answers 200 whatever the
\* notifications did, unless save_lead fails; then it stores none and
\* answers 500 "Failed to save lead".
C7_StoredUnlessSaveFails ==
    (Served /\ Filled # {}) =>
        IF req.save = "ok"
        THEN req.resp = StoredOk /\ Inserted = 1
        ELSE req.resp = <<"Failed to save lead", 500>> /\ Inserted = 0

\* C7's case: both notifications failed and the lead is stored, answered 200.
C7_Witness ==
    /\ Served /\ Filled # {}
    /\ req.discord = "failed" /\ req.webhook = "failed"
    /\ req.resp = StoredOk /\ Inserted = 1

\* C8: every stored lead belongs to the tenant its request's host resolves
\* to, and its field map is a non-empty map from accepted fields of that
\* tenant to non-empty values.
C8_StoredLeadsAreValid ==
    \A l \in company_leads :
        LET sub == resolve_subdomain(l.host)
        IN /\ sub \in Subdomains
           /\ l.company_id = CompanyRow(sub).id
           /\ DOMAIN l.lead_data # {}
           /\ DOMAIN l.lead_data \subseteq Range(CompanyRow(sub).lead_fields)
           /\ \A k \in DOMAIN l.lead_data : l.lead_data[k] # ""

\* C8's case: a lead stored from a form that also carried a field the tenant
\* does not accept and an accepted field left empty.
C8_Witness ==
    /\ \E l \in company_leads : l.host = HostA /\ DOMAIN l.lead_data = {"x"}
    /\ \E l \in company_leads : l.host = HostA /\ DOMAIN l.lead_data = {"y"}

\* C9: a submit whose form fills none of the tenant's accepted fields stores
\* no row and dispatches no notification, and once the tenant is found and
\* not expired the answer is 400 "No valid data".
C9_EmptyFormRejected ==
    (req.pc = "done" /\ req.company # NoCompany /\ Filled = {}) =>
        /\ Inserted = 0
        /\ req.save = "none" /\ req.discord = "none" /\ req.webhook = "none"
        /\ Served => req.resp = <<"No valid data", 400>>

\* C9's case: tenant b accepts x, and the form's x is empty.
C9_Witness ==
    /\ Served /\ Filled = {}
    /\ req.host = HostB /\ req.form = FormY
    /\ req.resp = <<"No valid data", 400>>

\* C10: a miss makes submit refresh the directory and look again, so a tenant
\* that is active in the database is never answered "Company not found".
C10_MissIsRefreshedOnce ==
    [][\A host \in Hosts, form \in Forms :
          (S_Lookup(host, form) /\ req'.resp = NotFound)
              => resolve_subdomain(host) \notin ActiveCompanies]_vars

\* C11: of the requests of one address, at most 5 are admitted to submit in
\* any 10 minutes (the requests admitted at two clock readings five minutes
\* apart are never more than 5 together), and a request answered 429 has
\* looked no company up and stored nothing.
C11_FivePerRollingWindow ==
    /\ rl.prev + rl.cur <= 5
    /\ req.resp = <<"Too many requests", 429>> =>
          /\ req.company = NoCompany
          /\ req.save = "none"
          /\ Inserted = 0

\* C12: a notification that fails does not fail the request and is not tried
\* again in it: once the lead is saved the only answer is 200 "Lead stored";
\* after a failed discord post the request's next step is the webhook and
\* the answer, the discord outcome standing; a failed webhook post is the
\* request's last step.
C12_DeliveryFailureSwallowed ==
    /\ [](req.save = "ok" => req.resp \in {NoResp, StoredOk})
    /\ []((req.save = "ok" /\ req.pc = "done") => req.resp = StoredOk)
    /\ [](req.webhook \in {"failed", "error"} => req.pc = "done")
    /\ [][(req.pc = "webhook" /\ req.discord = "failed") =>
            (req'.pc = "done" /\ req'.discord = "failed")]_req

\* C12's case: the discord post failed, the webhook was delivered, the
\* request is answered 200.
C12_Witness ==
    /\ req.pc = "done" /\ req.save = "ok"
    /\ req.discord = "failed" /\ req.webhook = "delivered"
    /\ req.resp = StoredOk

\* C13: send_webhook issues a POST exactly when both the url and the secret
\* are configured: none when the url is missing, none when the secret is
\* absent or empty.
C13_NoPostWithoutUrlAndSecret ==
    pf.op = "send_webhook" =>
        (pf.posts # <<>> <=>
            (pf.url \notin {None, ""} /\ pf.secret \notin {None, ""}))

\* C14: the X-Signature of every POST of send_webhook is the hex
\* HMAC-SHA256, keyed by the secret, of the X-Timestamp value sent followed
\* by the body sent; X-Timestamp is the decimal of the whole seconds of the
\* clock.
C14_SignatureCoversTimestampAndBody ==
    pf.op = "send_webhook" =>
        \A i \in DOMAIN pf.posts :
            LET post == pf.posts[i]
            IN /\ post.headers["X-Signature"] =
                    hmac_hexdigest(pf.secret, post.headers["X-Timestamp"] \o post.data)
               /\ post.headers["X-Timestamp"] = str(pf.now \div 10)
               /\ post.data = json_dumps(pf.payload)

\* C14's case: a POST for a lead of two fields at second 120, keyed "ka".
C14_Witness ==
    /\ pf.op = "send_webhook"
    /\ pf.posts # <<>>
    /\ pf.secret = "ka"
    /\ Len(pf.payload.lead) = 2
    /\ pf.posts[1].headers["X-Timestamp"] = <<"1", "2", "0">>

\* The field names in the order sorted() puts them in.
Alphabet == <<"x", "y", "z">>
Rank(k) == CHOOSE i \in 1..Len(Alphabet) : Alphabet[i] = k
Sorted(s) ==
    CHOOSE o \in Orders(s) :
        \A i, j \in 1..Len(o) : i < j => Rank(o[i]) < Rank(o[j])

\* C15: the header row of an export is the sorted union of the field names
\* of the fetched leads, then created_at; there is one data row per fetched
\* lead, in the header's columns, with an empty cell where the lead lacks
\* the field.
C15_ExportHeaderSorted ==
    pf.op = "export" =>
        LET header == Sorted(HeadersOf(pf.rows))
        IN /\ pf.csv[1] = header \o <<"created_at">>
           /\ Len(pf.csv) = Len(pf.rows) + 1
           /\ \A i \in 1..Len(pf.rows) :
                 pf.csv[i + 1] =
                    [j \in 1..Len(header) |->
                        IF header[j] \in DOMAIN pf.rows[i][1]
                        THEN pf.rows[i][1][header[j]] ELSE ""]
                    \o <<pf.rows[i][2]>>

\* C18: a digest email carries an expiry warning in its body exactly when
\* the plan expires in 0, 1 or 2 days.
C18_WarningIffExpiresSoon ==
    pf.op = "send_email" =>
        \A i \in DOMAIN pf.sent :
            (pf.sent[i].body # "Attached is today's lead report.")
                <=> (0 <= pf.plan_expiry - pf.day /\ pf.plan_expiry - pf.day < 3)

\* s ends with suf.
EndsWith(s, suf) ==
    Len(s) >= Len(suf) /\ SubSeq(s, Len(s) - Len(suf) + 1, Len(s)) = suf

\* C19: with the port stripped, the tenant key is the root key when the host
\* is the bare domain or its www variant or does not end in .mysqft.in, and
\* the leftmost label of the host otherwise.
C19_RootUnlessTenantSuffix ==
    pf.op = "resolve_subdomain" =>
        LET host == Split(pf.host, ":")[1]
        IN pf.subdomain =
             IF \/ host \in {BareDomain, WwwDomain}
                \/ ~EndsWith(host, <<".">> \o BareDomain)
             THEN RootKey
             ELSE Split(host, ".")[1]

\* C16: a company the loop finds without leads of today is skipped: the
\* step that fetches no rows for it builds no export, mails nothing, deletes
\* nothing and leaves the table as it is; whatever is exported, mailed or
\* deleted was fetched with rows.
C16_NoLeadsSkipped ==
    /\ [](dr.pc \in {"export", "email", "delete"} => dr.rows # {})
    /\ [](dr.emailed \cup dr.deleted \subseteq dr.fetched)
    /\ [][(/\ dr.pc = "loop"
            /\ dr'.companies # dr.companies
            /\ \A sub \in dr'.cur : LeadsToday(sub) = {})
           => /\ dr'.pc \in {"loop", "idle"}
              /\ dr'.fetched = dr.fetched
              /\ dr'.emailed = dr.emailed
              /\ dr'.deleted = dr.deleted
              /\ company_leads' = company_leads]_vars

\* C16's case: company a was fetched and purged, company b, which holds a
\* lead but none the fetch of today returned, was skipped.
C16_Witness ==
    /\ dr.pc = "loop" /\ dr.result = "running"
    /\ dr.cur = {SubB} /\ SubB \notin dr.fetched
    /\ SubA \in dr.deleted
    /\ \E l \in company_leads : l.company_id = CompanyRow(SubB).id

\* C17: the notifications of a request come after its lead is committed:
\* the request is at, or past, a notification only with the save done and
\* its row inserted; a failed save is answered 500 "Failed to save lead"
\* with neither notification dispatched and no row inserted.
C17_PersistBeforeNotify ==
    /\ (req.pc \in {"discord", "webhook"} \/ req.discord # "none" \/ req.webhook # "none")
          => (req.save = "ok" /\ Inserted = 1)
    /\ req.save = "failed"
          => /\ req.pc = "done"
             /\ req.resp = <<"Failed to save lead", 500>>
             /\ req.discord = "none" /\ req.webhook = "none"
             /\ Inserted = 0

\* C17's case: the save of a lead of company a, whose plan notifies on both
\* channels, failed.
C17_Witness ==
    /\ req.save = "failed"
    /\ req.company.id = CompanyRow(SubA).id
    /\ req.resp = <<"Failed to save lead", 500>>

\* C20: after a refresh that came to its end the directory is exactly the
\* snapshot of the companies its query returned, and a refresh whose query
\* returns what the directory already held leaves the directory as it was.
C20_RefreshLeavesExactSnapshot ==
    /\ []((lc.pc = "idle" /\ lc.outcome = "ok") => COMPANY_CACHE = SnapshotOf(lc.result))
    /\ [][(lc.pc = "store" /\ lc'.pc = "idle" /\ lc.pre = SnapshotOf(lc.result))
           => COMPANY_CACHE' = lc.pre]_vars

\* C20's case: a refresh came to its end with company a inactive: the
\* directory holds company b alone.
C20_Witness ==
    /\ lc.pc = "idle" /\ lc.outcome = "ok"
    /\ lc.result = {SubB}
    /\ DOMAIN COMPANY_CACHE = {SubB}

====
